---- MODULE Spec2Model ----
(***************************************************************************)
(* Model of the breadth-first minutes crawler.                             *)
(*                                                                         *)
(*   variant = "script"   src/crawler.py          (body-text save filter)  *)
(*   variant = "package"  src/crawler/crawler.py  (anchor-text pre-filter) *)
(*                                                                         *)
(* Both share the queue, the visited-in-run set, the quota counter and the *)
(* crawled_pages table; the table is also written by the Scrapy pipeline   *)
(* (src/scrapy_crawler/scrapy_crawler/pipelines.py), modelled here as a    *)
(* second writer on the same store.                                        *)
(*                                                                         *)
(* A URL string is a sequence of tokens: an optional scheme token, a path  *)
(* token, whitespace tokens WS and the fragment mark HASH followed by the  *)
(* fragment text.                                                          *)
(***************************************************************************)
EXTENDS Integers, Sequences, FiniteSets, TLC

\* ------------------------------------------------------------- bounds
MaxDepth == 2       \* max_depth ranges over -1 .. MaxDepth
MaxQuota == 1       \* max_downloads ranges over Nothing, 0 .. MaxQuota
MaxRuns == 2        \* crawl runs started one after the other on one store
MaxPipeline == 1    \* rows the Scrapy pipeline writes while the runs go on

None == "None"      \* Python's None, where the value is otherwise a string
Nothing == <<>>     \* Python's None, where the value is otherwise a number, bytes or a text
Some(x) == <<x>>    \* such a value when it is not None
WS == " "
HASH == "#"

\* ------------------------------------------------------------- URLs
Schemes == {"http:", "https:", "HTTP:", "HTTPS:", "ftp:", "mailto:", "javascript:"}

\* str.lower() on a scheme token
Lower(tok) ==
    CASE tok = "HTTP:" -> "http:"
      [] tok = "HTTPS:" -> "https:"
      [] OTHER -> tok

RECURSIVE lstrip(_)
lstrip(s) == IF s # <<>> /\ Head(s) = WS THEN lstrip(Tail(s)) ELSE s

RECURSIVE rstrip(_)
rstrip(s) == IF s # <<>> /\ s[Len(s)] = WS THEN rstrip(SubSeq(s, 1, Len(s) - 1)) ELSE s

\* str.strip()
strip(s) == rstrip(lstrip(s))

\* index of the first HASH of s, 0 when there is none
HashPos(s) ==
    IF \E i \in 1..Len(s) : s[i] = HASH
    THEN CHOOSE i \in 1..Len(s) : s[i] = HASH /\ \A j \in 1..(i - 1) : s[j] # HASH
    ELSE 0

\* urlparse(url).scheme: the scheme, lower-cased by urlsplit; "" when absent
scheme_of(s) == IF s # <<>> /\ Head(s) \in Schemes THEN Lower(Head(s)) ELSE ""

\* urlunparse(urlparse(url)): the URL serialised again, its scheme lower-cased
urlunparse(s) == IF s # <<>> /\ Head(s) \in Schemes THEN <<Lower(Head(s))>> \o Tail(s) ELSE s

\* urldefrag(url)[0]: a URL without "#" is returned as it is, any other is
\* parsed, loses its fragment and is serialised again
urldefrag(s) == IF HashPos(s) = 0 THEN s ELSE urlunparse(SubSeq(s, 1, HashPos(s) - 1))

normalize_url(url) == urldefrag(strip(url))

is_http_url(url) == Lower(scheme_of(url)) \in {"http:", "https:"}

\* schemes urljoin resolves against a base (urllib.parse.uses_relative)
uses_relative == {"http:", "https:", "ftp:", ""}

\* urljoin(base, href): an href of another scheme, or of a scheme that is not
\* hierarchical, is returned as it is; any other is resolved against the base
\* and serialised again (the model has one host)
urljoin(base, href) ==
    IF href = <<>> THEN base
    ELSE IF scheme_of(href) = ""
         THEN <<scheme_of(base)>> \o href
         ELSE IF scheme_of(href) # scheme_of(base) \/ scheme_of(href) \notin uses_relative
              THEN href
              ELSE urlunparse(href)

\* ------------------------------------------------------------- the site
Pages == {"top", "m1", "m2", "about"}

\* what rule_based_is_minutes_like looks for in a text: a keyword, a date
\* pattern, a time pattern, an agenda mention
Text(kw, date, time, agenda) == [kw |-> kw, date |-> date, time |-> time, agenda |-> agenda]

\* the visible text of each page's body
BodyText(page) ==
    CASE page = "top" -> Text(TRUE, FALSE, FALSE, FALSE)
      [] page = "m1" -> Text(TRUE, TRUE, FALSE, FALSE)
      [] page = "m2" -> Text(TRUE, FALSE, FALSE, TRUE)
      [] OTHER -> Text(FALSE, TRUE, TRUE, FALSE)

\* the path token of a fetched URL
PageOf(url) == IF Len(url) >= 2 THEN url[2] ELSE ""

\* anchor texts; KeywordAnchors hold one of MINUTES_KEYWORDS
Anchors == {"minutes", "About", ""}
KeywordAnchors == {"minutes"}

Anchor(href, text) == [href |-> href, text |-> text]

\* the <a href> elements of each page of a site, in document order.
\* Site "A": top links to m1 (relative href) and about; m1 and about both
\* link to m2 (about twice, as fragment and whitespace variants with different
\* anchor texts); m1 links back to top; m2 links to m1.
\* Site "B": top links to m1 and m2, and m1 links to m2 again; top also holds
\* two links to m2 over HTTPS that differ only in the fragment; m1 links
\* twice to about, first with an empty anchor text and then with a keyword
\* in it; m2 is a PDF and about is an image.
SiteAnchors(s, page) ==
    CASE s = "A" /\ page = "top" ->
           << Anchor(<<"m1">>, "minutes"), Anchor(<<"http:", "about">>, "About"),
              Anchor(<<"javascript:", "void">>, "minutes") >>
      [] s = "A" /\ page = "m1" ->
           << Anchor(<<"http:", "top">>, "minutes"), Anchor(<<"http:", "m2">>, "minutes"),
              Anchor(<<"ftp:", "m1">>, "minutes") >>
      [] s = "A" /\ page = "about" ->
           << Anchor(<<"http:", "m2", HASH, "f">>, "About"),
              Anchor(<<WS, "http:", "m2", WS>>, "minutes"),
              Anchor(<<"mailto:", "x">>, "minutes") >>
      [] s = "A" /\ page = "m2" ->
           << Anchor(<<"http:", "m1", WS, HASH, "f">>, "minutes") >>
      [] s = "B" /\ page = "top" ->
           << Anchor(<<"http:", "m1", WS, HASH, "f">>, "minutes"),
              Anchor(<<"http:", "m2">>, "minutes"),
              Anchor(<<"HTTPS:", "m2", HASH, "f">>, "minutes"),
              Anchor(<<"HTTPS:", "m2">>, "minutes") >>
      [] s = "B" /\ page = "m1" ->
           << Anchor(<<"about">>, ""), Anchor(<<"http:", "m2">>, "minutes"),
              Anchor(<<"http:", "about">>, "minutes") >>
      [] OTHER -> <<>>

Sites == {"A", "B"}

\* the Content-Type each page is served with
SiteType(s, page) ==
    CASE s = "B" /\ page = "m2" -> "application/pdf"
      [] s = "B" /\ page = "about" -> "image/png"
      [] OTHER -> "text/html"

\* --start-url values
StartUrls == { <<WS, "http:", "top", HASH, "f", WS>>, <<"ftp:", "m1">> }

Variants == {"script", "package"}

\* ------------------------------------------------------------- state
VARIABLES
    variant,        \* which crawler runs
    site,           \* which site the crawler is pointed at
    start_url,      \* crawl(start_url, ...)
    max_depth,      \* crawl(max_depth, ...)
    max_downloads,  \* crawl(max_downloads, ...): Nothing or Some(integer)
    cfg,            \* the rules YAML of the Scrapy spider (NoCfg for the two crawlers)
    pc,             \* the controller's position
    q,              \* deque of QueueItem
    seen_in_run,    \* set of normalized URLs
    saved_count,    \* rows this run inserted, as the controller counts them
    item,           \* the QueueItem being processed
    url,            \* normalize_url(item.url)
    resp,           \* the response of session.get, NoResp when it raised
    status_code, content_type, body_bytes, html_title, links,
    keep,           \* the save decision
    crawled_pages,  \* the table: a set of rows
    connected,      \* get_db_connection(): "no" before the call, then "yes" or "failed"
    txn_failed,     \* the connection's transaction is aborted
    filter_raised,  \* the filter raised on the item being processed
    run,            \* number of the current run
    pipeline_n,     \* rows written by the Scrapy pipeline so far
    store0,         \* history: the table when the run started
    fetch_log,      \* history: URLs passed to session.get, this run
    fetch_raw,      \* history: for each of them, the URL as it was written
    deq_log,        \* history: items popped, this run
    enq_log,        \* history: items pushed, this run (the seed included)
    raw_log,        \* history: for each of them, the URL as it was written
    save_log,       \* history: the save_page calls of this run and how they ended
    ins_log         \* history: rows that appeared in the table in this run's saves

\* a second crawl process on the same table (off in a single crawl)
VARIABLES
    other_pc,           \* its position: "off", "dequeue", "exists", "save", "done"
    other_item,         \* the QueueItem it is processing
    other_saved_count,  \* its saved_count
    other_ins           \* history: the rows its save_page calls added

other == <<other_pc, other_item, other_saved_count, other_ins>>

\* ingest/committee_deliberations_embed.py: run() reading crawled_pages
VARIABLES
    ingest_pc,      \* position of run(): "off", "fetch", "batch", "done", "failed"
    source,         \* the source table: its rows in id order
    target,         \* the committed target table: the ids of the source rows it holds
    batch_size,     \* cfg["batch_size"]
    rows            \* the ids fetch_rows returned for the batch at hand

ingest == <<ingest_pc, source, target, batch_size, rows>>

\* chunk_text(text, chunk_size, overlap) of the ingestion
VARIABLES
    chunk_pc,       \* position of the call: "off", "call", "loop", "returned"
    text_len,       \* n = len(text)
    chunk_size,
    overlap,
    start,
    chunks          \* the slices appended so far, each as <<start, end>>

chunker == <<chunk_pc, text_len, chunk_size, overlap, start, chunks>>
outside == <<other, ingest, chunker>>

config == <<variant, site, start_url, max_depth, max_downloads, cfg>>
temps == <<resp, status_code, content_type, body_bytes, html_title, links, keep>>
history == <<store0, fetch_log, fetch_raw, deq_log, enq_log, raw_log, save_log, ins_log>>
vars_crawl == <<config, pc, q, seen_in_run, saved_count, item, url, temps,
                crawled_pages, connected, txn_failed, filter_raised, run, pipeline_n, history>>
vars == <<config, pc, q, seen_in_run, saved_count, item, url, temps,
          crawled_pages, connected, txn_failed, filter_raised, run, pipeline_n, history,
          outside>>

QueueItem(u, depth, anchor_text) == [url |-> u, depth |-> depth, anchor_text |-> anchor_text]

NoItem == QueueItem(<<>>, 0, None)

\* ------------------------------------------------------------- persistence gateway
\* mutant of Row: the depth is stored counting the start page as 1
Row_one_indexed(u, anchor_text, status, ctype, content, title, depth) ==
    [url |-> u, referrer_anchor_text |-> anchor_text, status_code |-> status,
     content_type |-> ctype, content |-> content, html_title |-> title, depth |-> depth + 1]

\* the columns of a row of crawled_pages, as save_page binds them
Row(u, anchor_text, status, ctype, content, title, depth) ==
    [url |-> u, referrer_anchor_text |-> anchor_text, status_code |-> status,
     content_type |-> ctype, content |-> content, html_title |-> title, depth |-> depth]

\* mutant of url_exists: the probe never finds the url
url_exists_never(table, u) == FALSE

\* SELECT 1 FROM crawled_pages WHERE url = %s LIMIT 1
url_exists(table, u) == \E r \in table : r.url = u

\* mutants of save_page: a plain INSERT, an upsert, and a caller-visible
\* row count that ignores the conflict
save_page_plain_insert(table, row) == [table |-> table \cup {row}, inserted |-> TRUE]
save_page_upsert(table, row) ==
    [table |-> {r \in table : r.url # row.url} \cup {row}, inserted |-> TRUE]
save_page_rowcount_ignored(table, row) ==
    [table |-> IF \E r \in table : r.url = row.url THEN table ELSE table \cup {row},
     inserted |-> TRUE]

\* mutant of save_page: conn.commit() is missing, the row never reaches the
\* committed table
save_page_no_commit(table, row) ==
    [table |-> table, inserted |-> ~\E r \in table : r.url = row.url]

\* mutant of save_page: inserted = cur.rowcount == 0
save_page_rowcount_inverted(table, row) ==
    IF \E r \in table : r.url = row.url
    THEN [table |-> table, inserted |-> TRUE]
    ELSE [table |-> table \cup {row}, inserted |-> FALSE]

\* INSERT ... ON CONFLICT (url) DO NOTHING, committed before the call returns
\* (crawled_pages is the committed table); inserted = cur.rowcount > 0
save_page(table, row) ==
    IF \E r \in table : r.url = row.url
    THEN [table |-> table, inserted |-> FALSE]
    ELSE [table |-> table \cup {row}, inserted |-> TRUE]

\* PostgresPipeline.process_item: the same insert-or-ignore, content never NULL
process_item(table, it) ==
    IF \E r \in table : r.url = it.url
    THEN table
    ELSE table \cup {Row(it.url, it.referrer_anchor_text, it.status_code, it.content_type,
                         IF it.content = Nothing THEN <<"bytes">> ELSE it.content, it.html_title, it.depth)}

\* items the Scrapy spider hands to its pipeline
PipelineItems ==
    { Row(<<"http:", "m2">>, "agenda", Some(200), "application/pdf", <<"bytes", "m2">>, None, 1) }

\* ------------------------------------------------------------- link extraction
\* the (abs_url, text) pairs of a page; href, the attribute as written on the
\* page, is kept beside each pair for the history variables only
RECURSIVE extract_links(_, _)
extract_links(base_url, anchors) ==
    IF anchors = <<>> THEN <<>>
    ELSE LET a == Head(anchors)
             abs_url == normalize_url(urljoin(base_url, strip(a.href)))
         IN  IF ~is_http_url(abs_url)
             THEN extract_links(base_url, Tail(anchors))
             ELSE <<[url |-> abs_url, text |-> a.text, href |-> a.href]>>
                      \o extract_links(base_url, Tail(anchors))

\* ------------------------------------------------------------- relevance filter
\* mutant of rule_based_is_minutes_like: a keyword is enough
rule_based_keyword_only(t) == t.kw

\* a keyword, and signals >= 1 of the date, time and agenda patterns
rule_based_is_minutes_like(t) == t.kw /\ (t.date \/ t.time \/ t.agenda)

\* the placeholder answers None whether or not ENABLE_LLM_FILTER is set
llm_is_minutes_like(t, u) == None

\* url.lower() read as a text: the path of m1, and on site "B" the path of
\* the image about, hold "minutes" and a date
UrlText(u) ==
    IF PageOf(u) = "m1" \/ (site = "B" /\ PageOf(u) = "about")
    THEN Text(TRUE, TRUE, FALSE, FALSE)
    ELSE Text(FALSE, FALSE, FALSE, FALSE)

PdfTypes == {"application/pdf", "application/x-pdf", "application/acrobat"}

\* crawler.py should_save: html_text and pdf_text are Nothing when not available
should_save(ctype, u, html_text, pdf_text) ==
    LET text == IF ctype = "text/html" /\ html_text # Nothing THEN html_text[1]
                ELSE IF ctype \in PdfTypes /\ pdf_text # Nothing THEN pdf_text[1]
                ELSE UrlText(u)
    IN  IF rule_based_is_minutes_like(text) THEN TRUE
        ELSE IF llm_is_minutes_like(text, u) # None THEN llm_is_minutes_like(text, u)
        ELSE FALSE

\* mutant of anchor_is_minutes_like: any anchor text that is not empty passes
anchor_is_minutes_like_any_text(anchor_text) == anchor_text # ""

\* minutes_filter.py anchor_is_minutes_like
anchor_is_minutes_like(anchor_text) == anchor_text # "" /\ anchor_text \in KeywordAnchors

\* MinutesFilter.should_save: `text` is the anchor text
filter_should_save(u, text) ==
    IF anchor_is_minutes_like(text) THEN TRUE
    ELSE IF llm_is_minutes_like(text, u) # None THEN llm_is_minutes_like(text, u)
    ELSE FALSE

\* ------------------------------------------------------------- HTTP
Html(page, anchors) ==
    [content_type |-> "text/html", page |-> page, anchors |-> anchors, pdf_text |-> Nothing]
Pdf(page, extractable) ==
    [content_type |-> "application/pdf", page |-> page, anchors |-> <<>>,
     pdf_text |-> IF extractable THEN Some(BodyText(page)) ELSE Nothing]
Other(page) ==
    [content_type |-> "image/png", page |-> page, anchors |-> <<>>, pdf_text |-> Nothing]
NoResp == [content_type |-> None, page |-> "", anchors |-> <<>>, pdf_text |-> Nothing]

\* what session.get(url) may return; the empty set for a URL requests has no
\* adapter for (InvalidSchema, a RequestException)
Responses(u) ==
    IF ~is_http_url(u) THEN {}
    ELSE LET p == PageOf(u)
         IN  CASE SiteType(site, p) = "text/html" -> {Html(p, SiteAnchors(site, p))}
               [] SiteType(site, p) = "application/pdf" -> {Pdf(p, TRUE), Pdf(p, FALSE)}
               [] OTHER -> {Other(p)}

\* ------------------------------------------------------------- the crawl
Configs ==
    [variant : Variants, site : Sites, start_url : StartUrls, max_depth : -1..MaxDepth,
     max_downloads : {Nothing} \cup {Some(n) : n \in 0..MaxQuota}]

\* no rules file: the two crawlers take their settings from the command line
NoCfg == [follow_anchor_exact |-> {}, download_anchor_exact |-> {}, llm_fallback |-> FALSE]

\* no second process
OtherIdle ==
    /\ other_pc = "off" /\ other_item = NoItem /\ other_saved_count = 0 /\ other_ins = {}

\* run() of the ingestion is not started
IngestIdle ==
    /\ ingest_pc = "off" /\ source = <<>> /\ target = {} /\ batch_size = 1 /\ rows = {}

\* chunk_text is not called
ChunkIdle ==
    /\ chunk_pc = "off" /\ text_len = 0 /\ chunk_size = 1 /\ overlap = 0 /\ start = 0
    /\ chunks = <<>>

\* nothing runs beside the crawl
OutsideIdle == OtherIdle /\ IngestIdle /\ ChunkIdle

\* the state of the crawler when crawl() is entered
CrawlInit ==
    /\ \E c \in Configs :
          /\ variant = c.variant /\ site = c.site /\ start_url = c.start_url
          /\ max_depth = c.max_depth /\ max_downloads = c.max_downloads
    /\ cfg = NoCfg
    /\ pc = "start"
    /\ q = <<>> /\ seen_in_run = {} /\ saved_count = 0
    /\ item = NoItem /\ url = <<>>
    /\ resp = NoResp /\ status_code = Nothing /\ content_type = None /\ body_bytes = Nothing
    /\ html_title = None /\ links = <<>> /\ keep = FALSE
    /\ crawled_pages = {}
    /\ connected = "no" /\ txn_failed = FALSE /\ filter_raised = FALSE
    /\ run = 1
    /\ pipeline_n = 0
    /\ store0 = {}
    /\ fetch_log = <<>> /\ fetch_raw = <<>> /\ deq_log = <<>> /\ enq_log = <<>>
    /\ raw_log = <<>> /\ save_log = <<>> /\ ins_log = {}

Init == CrawlInit /\ OutsideIdle

\* the seed: q = deque([QueueItem(start_url, 0, None)]) after normalize_url
Seed == QueueItem(normalize_url(start_url), 0, None)

\* mutant of Start: a failed connection is reported and the crawl starts anyway
Start_goes_on ==
    /\ pc = "start"
    /\ connected' \in {"failed", "yes"}
    /\ q' = <<Seed>>
    /\ enq_log' = <<Seed>>
    /\ raw_log' = <<start_url>>
    /\ pc' = "dequeue"
    /\ UNCHANGED <<outside, config, seen_in_run, saved_count, item, url, temps, crawled_pages,
                   txn_failed, filter_raised, run, pipeline_n, store0, fetch_log,
                   fetch_raw, deq_log, save_log, ins_log>>

\* crawl() up to the loop: get_db_connection() raising ends the process
Start ==
    /\ pc = "start"
    /\ \/ /\ connected' = "failed"
          /\ pc' = "exit"
          /\ UNCHANGED <<q, enq_log, raw_log>>
       \/ /\ connected' = "yes"
          /\ q' = <<Seed>>
          /\ enq_log' = <<Seed>>
          /\ raw_log' = <<start_url>>
          /\ pc' = "dequeue"
    /\ UNCHANGED <<outside, config, seen_in_run, saved_count, item, url, temps, crawled_pages,
                   txn_failed, filter_raised, run, pipeline_n, store0, fetch_log,
                   fetch_raw, deq_log, save_log, ins_log>>

\* mutant of AlreadySeen: the in-run dedup is missing
AlreadySeen_never(u, seen) == FALSE

\* `if url in seen_in_run: continue`
AlreadySeen(u, seen) == u \in seen

\* mutant of popleft: deque.pop(), the right end
popleft_pop(d) == [item |-> d[Len(d)], rest |-> SubSeq(d, 1, Len(d) - 1)]

\* deque.popleft(): the item taken and the deque left
popleft(d) == [item |-> Head(d), rest |-> Tail(d)]

\* item = q.popleft(); url = normalize_url(item.url); the in-run dedup
Dequeue ==
    /\ pc = "dequeue"
    /\ q # <<>>
    /\ item' = popleft(q).item
    /\ q' = popleft(q).rest
    /\ url' = normalize_url(item'.url)
    /\ deq_log' = Append(deq_log, item')
    /\ IF AlreadySeen(url', seen_in_run)
       THEN pc' = "dequeue" /\ UNCHANGED seen_in_run
       ELSE pc' = "exists" /\ seen_in_run' = seen_in_run \cup {url'}
    /\ filter_raised' = FALSE
    /\ UNCHANGED <<outside, config, saved_count, temps, crawled_pages, connected, txn_failed, run,
                   pipeline_n, store0, fetch_log, fetch_raw, enq_log, raw_log, save_log,
                   ins_log>>

\* mutant of LoopExit: the loop waits on the empty queue instead of ending
LoopExit_waits ==
    /\ pc = "dequeue"
    /\ q = <<>>
    /\ UNCHANGED vars

\* `while q` is false: conn.close()
LoopExit ==
    /\ pc = "dequeue"
    /\ q = <<>>
    /\ pc' = "done"
    /\ UNCHANGED <<outside, config, q, seen_in_run, saved_count, item, url, temps, crawled_pages,
                   connected, txn_failed, filter_raised, run, pipeline_n, history>>

\* where the controller goes when the URL is not in the table
AfterExists == IF variant = "package" /\ item.depth > 0 THEN "prefilter" ELSE "fetch"

\* `if url_exists(conn, url): continue`, then the per-item locals are reset.
\* The probe is not inside a try: an error of the database (the connection is
\* lost, or its transaction is aborted) ends the process with a traceback.
ExistsCheck ==
    /\ pc = "exists"
    /\ \/ /\ pc' = "aborted"
          /\ UNCHANGED temps
       \/ /\ ~txn_failed
          /\ IF url_exists(crawled_pages, url)
             THEN pc' = "dequeue" /\ UNCHANGED temps
             ELSE /\ pc' = AfterExists
                  /\ resp' = NoResp /\ status_code' = Nothing /\ content_type' = None
                  /\ body_bytes' = Nothing /\ html_title' = None /\ links' = <<>>
                  /\ keep' = FALSE
    /\ UNCHANGED <<outside, config, q, seen_in_run, saved_count, item, url, crawled_pages,
                   connected, txn_failed, filter_raised, run, pipeline_n, history>>

\* mutant of FilterVerdict: an exception of the filter counts as True
FilterVerdict_fail_open(raised, verdict) == IF raised THEN TRUE ELSE verdict

\* `try: ... = should_save(...)  except Exception: ... = False`
FilterVerdict(raised, verdict) == IF raised THEN FALSE ELSE verdict

\* package variant: the anchor-text pre-filter of an item of depth > 0; the
\* filter is loaded by name (load_filter) and may raise
PreFilter ==
    /\ pc = "prefilter"
    /\ filter_raised' \in BOOLEAN
    /\ LET should_fetch ==
               FilterVerdict(filter_raised',
                   filter_should_save(url, IF item.anchor_text = None THEN "" ELSE item.anchor_text))
       IN  pc' = IF should_fetch THEN "fetch" ELSE "dequeue"
    /\ UNCHANGED <<outside, config, q, seen_in_run, saved_count, item, url, temps, crawled_pages,
                   connected, txn_failed, run, pipeline_n, history>>

\* mutant of AfterFetch: the package variant saves the root as well
AfterFetch_root_saved ==
    IF variant = "script" THEN "filter" ELSE "persist"

\* mutant of AfterFetch: the script variant saves without asking the filter
AfterFetch_saves_unfiltered ==
    IF item.depth > 0 THEN "persist" ELSE "enqueue"

\* where the controller goes after the request
AfterFetch ==
    IF variant = "script" THEN "filter"
    ELSE IF item.depth > 0 THEN "persist" ELSE "enqueue"

\* mutant of FetchOk: links are extracted from every response, at any depth
FetchOk_extracts_always(r) ==
    /\ resp' = r
    /\ status_code' = Some(200)
    /\ content_type' = r.content_type
    /\ body_bytes' = <<"bytes", r.page>>
    /\ html_title' = IF r.content_type = "text/html" THEN r.page ELSE None
    /\ links' = extract_links(url, SiteAnchors("A", r.page))

\* session.get(url) returned r
FetchOk(r) ==
    /\ resp' = r
    /\ status_code' = Some(200)
    /\ content_type' = r.content_type
    /\ body_bytes' = <<"bytes", r.page>>
    /\ IF r.content_type = "text/html"
       THEN /\ html_title' = r.page
            /\ links' = IF item.depth < max_depth THEN extract_links(url, r.anchors) ELSE <<>>
       ELSE html_title' = None /\ links' = <<>>

\* session.get(url) raised a RequestException
FetchFailed ==
    /\ resp' = NoResp
    /\ status_code' = Nothing /\ content_type' = None /\ body_bytes' = Nothing
    /\ html_title' = None /\ links' = <<>>

\* the try block around session.get
Fetch ==
    /\ pc = "fetch"
    /\ fetch_log' = Append(fetch_log, url)
    /\ fetch_raw' = Append(fetch_raw, raw_log[Len(deq_log)])
    /\ \/ \E r \in Responses(url) : FetchOk(r)
       \/ FetchFailed
    /\ pc' = AfterFetch
    /\ UNCHANGED <<outside, config, q, seen_in_run, saved_count, item, url, keep, crawled_pages,
                   connected, txn_failed, filter_raised, run, pipeline_n, store0, deq_log,
                   enq_log, raw_log, save_log, ins_log>>

\* script variant: keep = should_save(...), False when it raises
Filter ==
    /\ pc = "filter"
    /\ filter_raised' \in BOOLEAN
    /\ keep' = FilterVerdict(filter_raised',
                   should_save(content_type, url,
                               IF content_type = "text/html" THEN Some(BodyText(resp.page)) ELSE Nothing,
                               IF content_type \in PdfTypes THEN resp.pdf_text ELSE Nothing))
    /\ pc' = IF keep' THEN "persist" ELSE "enqueue"
    /\ UNCHANGED <<outside, config, q, seen_in_run, saved_count, item, url, resp, status_code,
                   content_type, body_bytes, html_title, links, crawled_pages,
                   connected, txn_failed, run, pipeline_n, history>>

\* `if max_downloads is not None and saved_count >= max_downloads: break`
QuotaReached(count) == max_downloads # Nothing /\ count >= max_downloads[1]

\* mutant of Persist: every save_page call that returns is counted
Persist_counts_every_save ==
    /\ pc = "persist"
    /\ LET row == Row(url, item.anchor_text, status_code, content_type, body_bytes,
                      html_title, item.depth)
       IN  \/ LET res == save_page(crawled_pages, row)
              IN  /\ crawled_pages' = res.table
                  /\ saved_count' = saved_count + 1
                  /\ pc' = IF res.inserted /\ QuotaReached(saved_count') THEN "done" ELSE "enqueue"
                  /\ save_log' = Append(save_log, [row |-> row, returned |-> res.inserted,
                                                   raised |-> FALSE])
                  /\ UNCHANGED txn_failed
           \/ \* save_page raised: before the statement ran (the transaction stays
              \* usable) or in the statement (the transaction is aborted)
              /\ txn_failed' \in BOOLEAN
              /\ pc' = "enqueue"
              /\ save_log' = Append(save_log, [row |-> row, returned |-> FALSE, raised |-> TRUE])
              /\ UNCHANGED <<crawled_pages, saved_count>>
    /\ ins_log' = ins_log \cup (crawled_pages' \ crawled_pages)
    /\ UNCHANGED <<outside, config, q, seen_in_run, item, url, temps, connected, filter_raised,
                   run, pipeline_n, store0, fetch_log, fetch_raw, deq_log, enq_log, raw_log>>

\* the try block around save_page
Persist ==
    /\ pc = "persist"
    /\ LET row == Row(url, item.anchor_text, status_code, content_type, body_bytes,
                      html_title, item.depth)
       IN  \/ LET res == save_page(crawled_pages, row)
              IN  /\ crawled_pages' = res.table
                  /\ saved_count' = IF res.inserted THEN saved_count + 1 ELSE saved_count
                  /\ pc' = IF res.inserted /\ QuotaReached(saved_count') THEN "done" ELSE "enqueue"
                  /\ save_log' = Append(save_log, [row |-> row, returned |-> res.inserted,
                                                   raised |-> FALSE])
                  /\ UNCHANGED txn_failed
           \/ \* save_page raised: before the statement ran (the transaction stays
              \* usable) or in the statement (the transaction is aborted)
              /\ txn_failed' \in BOOLEAN
              /\ pc' = "enqueue"
              /\ save_log' = Append(save_log, [row |-> row, returned |-> FALSE, raised |-> TRUE])
              /\ UNCHANGED <<crawled_pages, saved_count>>
    /\ ins_log' = ins_log \cup (crawled_pages' \ crawled_pages)
    /\ UNCHANGED <<outside, config, q, seen_in_run, item, url, temps, connected, filter_raised,
                   run, pipeline_n, store0, fetch_log, fetch_raw, deq_log, enq_log, raw_log>>

\* mutant of Children: the child's depth is one too many
RECURSIVE Children_depth_off(_, _, _)
Children_depth_off(ls, depth, seen) ==
    IF ls = <<>> THEN <<>>
    ELSE LET l == Head(ls)
         IN  IF l.url \in seen THEN Children_depth_off(Tail(ls), depth, seen)
             ELSE <<QueueItem(l.url, depth + 2, IF l.text = "" THEN None ELSE l.text)>>
                      \o Children_depth_off(Tail(ls), depth, seen)

\* the QueueItems the loop over `links` appends
RECURSIVE Children(_, _, _)
Children(ls, depth, seen) ==
    IF ls = <<>> THEN <<>>
    ELSE LET l == Head(ls)
         IN  IF l.url \in seen THEN Children(Tail(ls), depth, seen)
             ELSE <<QueueItem(l.url, depth + 1, IF l.text = "" THEN None ELSE l.text)>>
                      \o Children(Tail(ls), depth, seen)

\* history: the href of each of these QueueItems
RECURSIVE ChildrenRaw(_, _)
ChildrenRaw(ls, seen) ==
    IF ls = <<>> THEN <<>>
    ELSE IF Head(ls).url \in seen THEN ChildrenRaw(Tail(ls), seen)
         ELSE <<Head(ls).href>> \o ChildrenRaw(Tail(ls), seen)

\* mutant of Enqueue: q.appendleft(...), the children go to the front
Enqueue_appendleft ==
    /\ pc = "enqueue"
    /\ LET follow == links # <<>> /\ item.depth < max_depth
           new == IF follow THEN Children(links, item.depth, seen_in_run) ELSE <<>>
           raw == IF follow THEN ChildrenRaw(links, seen_in_run) ELSE <<>>
       IN  /\ q' = new \o q
           /\ enq_log' = enq_log \o new
           /\ raw_log' = raw_log \o raw
    /\ pc' = "dequeue"
    /\ UNCHANGED <<outside, config, seen_in_run, saved_count, item, url, temps, crawled_pages,
                   connected, txn_failed, filter_raised, run, pipeline_n, store0, fetch_log,
                   fetch_raw, deq_log, save_log, ins_log>>

\* `if links and item.depth < max_depth`
Enqueue ==
    /\ pc = "enqueue"
    /\ LET follow == links # <<>> /\ item.depth < max_depth
           new == IF follow THEN Children(links, item.depth, seen_in_run) ELSE <<>>
           raw == IF follow THEN ChildrenRaw(links, seen_in_run) ELSE <<>>
       IN  /\ q' = q \o new
           /\ enq_log' = enq_log \o new
           /\ raw_log' = raw_log \o raw
    /\ pc' = "dequeue"
    /\ UNCHANGED <<outside, config, seen_in_run, saved_count, item, url, temps, crawled_pages,
                   connected, txn_failed, filter_raised, run, pipeline_n, store0, fetch_log,
                   fetch_raw, deq_log, save_log, ins_log>>

\* the process has ended: the loop ran out, the quota was reached, the
\* connection failed at startup, or an exception left crawl()
Ended == pc \in {"done", "exit", "aborted"}

\* the same command is started again on the same table, with the same
\* --max-downloads or without one
NewRun ==
    /\ Ended
    /\ run < MaxRuns
    /\ run' = run + 1
    /\ store0' = crawled_pages
    /\ max_downloads' \in {max_downloads, Nothing}
    /\ UNCHANGED <<outside, variant, site, start_url, max_depth, cfg>>
    /\ pc' = "start"
    /\ q' = <<>> /\ seen_in_run' = {} /\ saved_count' = 0
    /\ item' = NoItem /\ url' = <<>>
    /\ resp' = NoResp /\ status_code' = Nothing /\ content_type' = None
    /\ body_bytes' = Nothing /\ html_title' = None /\ links' = <<>> /\ keep' = FALSE
    /\ connected' = "no" /\ txn_failed' = FALSE /\ filter_raised' = FALSE
    /\ fetch_log' = <<>> /\ fetch_raw' = <<>> /\ deq_log' = <<>> /\ enq_log' = <<>>
    /\ raw_log' = <<>> /\ save_log' = <<>> /\ ins_log' = {}
    /\ UNCHANGED <<crawled_pages, pipeline_n>>

\* the Scrapy pipeline writes a row of its own
PipelineInsert ==
    /\ pipeline_n < MaxPipeline
    /\ pipeline_n' = pipeline_n + 1
    /\ \E it \in PipelineItems : crawled_pages' = process_item(crawled_pages, it)
    /\ UNCHANGED <<outside, config, pc, q, seen_in_run, saved_count, item, url, temps,
                   connected, txn_failed, filter_raised, run, history>>

Next ==
    \/ Start
    \/ Dequeue
    \/ LoopExit
    \/ ExistsCheck
    \/ PreFilter
    \/ Fetch
    \/ Filter
    \/ Persist
    \/ Enqueue
    \/ NewRun
    \/ PipelineInsert

Spec == Init /\ [][Next]_vars

\* the steps of one crawl() call
Run ==
    \/ Start
    \/ Dequeue
    \/ LoopExit
    \/ ExistsCheck
    \/ PreFilter
    \/ Fetch
    \/ Filter
    \/ Persist
    \/ Enqueue

\* the configurations of the termination check: the least and the greatest
\* max_depth >= 0, without a quota and with the greatest one
LiveInit ==
    /\ Init
    /\ max_depth \in {0, MaxDepth}
    /\ max_downloads \in {Nothing, Some(MaxQuota)}

\* one run of the command: crawl() is a sequential loop, each of its steps
\* returns (requests and statements come back with a result or an exception),
\* so a step that can be taken is taken
LiveSpec == LiveInit /\ [][Run]_vars /\ WF_vars(Run)

\* ------------------------------------------------------------- two crawls, one table
\* A second crawl() process works on the same crawled_pages table through a
\* connection of its own. Of its loop the steps that touch the table are
\* modelled: url_exists and save_page, each one statement and one commit; its
\* frontier may hold any link of the site, each at depth MaxDepth, and it was
\* started with --max-downloads MaxOther.
MaxOther == 1

\* every link of the site
SiteLinks ==
    UNION {{extract_links(<<"http:", p>>, SiteAnchors(site, p))[i] :
              i \in DOMAIN extract_links(<<"http:", p>>, SiteAnchors(site, p))} : p \in Pages}

\* the QueueItems the second process may pop
OtherItems ==
    {QueueItem(l.url, MaxDepth, IF l.text = "" THEN None ELSE l.text) : l \in SiteLinks}

\* item = q.popleft() of the second process
OtherDequeue ==
    /\ other_pc = "dequeue"
    /\ \E it \in OtherItems : other_item' = it
    /\ other_pc' = "exists"
    /\ UNCHANGED <<vars_crawl, ingest, chunker, other_saved_count, other_ins>>

\* `if url_exists(conn, url): continue` of the second process
OtherExistsCheck ==
    /\ other_pc = "exists"
    /\ other_pc' = IF url_exists(crawled_pages, other_item.url) THEN "dequeue" ELSE "save"
    /\ UNCHANGED <<vars_crawl, ingest, chunker, other_item, other_saved_count, other_ins>>

\* the fetch and save_page of the second process, and its quota test
OtherPersist ==
    /\ other_pc = "save"
    /\ LET page == PageOf(other_item.url)
           row == Row(other_item.url, other_item.anchor_text, Some(200), SiteType(site, page),
                      <<"bytes", page>>, page, other_item.depth)
           res == save_page(crawled_pages, row)
       IN  /\ crawled_pages' = res.table
           /\ other_saved_count' = IF res.inserted THEN other_saved_count + 1
                                                    ELSE other_saved_count
           /\ other_pc' = IF res.inserted /\ other_saved_count' >= MaxOther THEN "done"
                                                                             ELSE "dequeue"
    /\ other_ins' = other_ins \cup (crawled_pages' \ crawled_pages)
    /\ UNCHANGED <<config, pc, q, seen_in_run, saved_count, item, url, temps, connected,
                   txn_failed, filter_raised, run, pipeline_n, history, other_item, ingest,
                   chunker>>

\* the frontier of the second process ran out
OtherExit ==
    /\ other_pc = "dequeue"
    /\ other_pc' = "done"
    /\ UNCHANGED <<vars_crawl, ingest, chunker, other_item, other_saved_count, other_ins>>

\* both processes are started on an empty table
ConcInit ==
    /\ CrawlInit
    /\ site = "A"
    /\ start_url = <<WS, "http:", "top", HASH, "f", WS>>
    /\ max_depth = MaxDepth
    /\ max_downloads \in {Nothing, Some(MaxQuota)}
    /\ other_pc = "dequeue" /\ other_item = NoItem /\ other_saved_count = 0 /\ other_ins = {}
    /\ IngestIdle /\ ChunkIdle

ConcNext ==
    \/ Start
    \/ Dequeue
    \/ LoopExit
    \/ ExistsCheck
    \/ PreFilter
    \/ Fetch
    \/ Filter
    \/ Persist
    \/ Enqueue
    \/ OtherDequeue
    \/ OtherExistsCheck
    \/ OtherPersist
    \/ OtherExit

ConcSpec == ConcInit /\ [][ConcNext]_vars

\* ------------------------------------------------------------- the Scrapy spider
\* MinutesSpider: max_depth holds the DEPTH_LIMIT setting (depth_limit of the
\* rules file), q the scheduler's queue of requests, seen_in_run the
\* fingerprints of the duplicate filter, links the decisions parse() took on
\* the links of the last page, item the last request sent to the downloader,
\* resp its response, fetch_log all the requests sent to the downloader.

\* w3lib canonicalize_url, as LinkExtractor(canonicalize=True) and the request
\* fingerprint apply it: the fragment is dropped, the URL serialised again
canonicalize_url(s) ==
    urlunparse(IF HashPos(s) = 0 THEN s ELSE SubSeq(s, 1, HashPos(s) - 1))

\* the schemes LinkExtractor keeps
ValidSchemes == {"http:", "https:", "ftp:"}

\* LinkExtractor(canonicalize=True, unique=True).extract_links: of several
\* links to one URL the first is kept
RECURSIVE LinkExtractor(_, _, _)
LinkExtractor(base_url, anchors, got) ==
    IF anchors = <<>> THEN <<>>
    ELSE LET a == Head(anchors)
             u == canonicalize_url(urljoin(base_url, strip(a.href)))
         IN  IF scheme_of(u) \notin ValidSchemes \/ u \in got
             THEN LinkExtractor(base_url, Tail(anchors), got)
             ELSE <<[url |-> u, text |-> a.text]>>
                      \o LinkExtractor(base_url, Tail(anchors), got \cup {u})

\* the closures from_crawler builds from follow_anchor_exact and
\* download_anchor_exact
is_follow_anchor(text) == text \in cfg.follow_anchor_exact
is_download_anchor(text) == text \in cfg.download_anchor_exact

\* what the LLM said of one link: "True" or "False" when llm_dict holds the
\* link's URL, None when it does not, "failed" when complete_text raised or
\* its answer was not JSON (the chunk is ignored)
LlmAnswers == {"True", "False", None}

\* the answers for the n links of a page (one chunk)
LlmResults(n) ==
    IF cfg.llm_fallback /\ n > 0
    THEN [1..n -> LlmAnswers] \cup {[i \in 1..n |-> "failed"]}
    ELSE {[i \in 1..n |-> None]}

\* mutant of will_follow: the LLM's answer replaces the rule's
will_follow_llm_decides(rule, llm) == IF llm \in {"True", "False"} THEN llm = "True" ELSE rule

\* will_follow = _is_follow_anchor(text), and when that is False,
\* bool(llm_dict.get(link.url, False))
will_follow(rule, llm) == IF rule THEN TRUE ELSE llm = "True"

\* the loop over links: what parse() decided for each
Decisions(ls, llm) ==
    [i \in DOMAIN ls |->
        [url |-> ls[i].url, text |-> ls[i].text,
         rule |-> is_follow_anchor(ls[i].text), llm |-> llm[i],
         will_follow |-> will_follow(is_follow_anchor(ls[i].text), llm[i]),
         will_download |-> is_download_anchor(ls[i].text)]]

\* scrapy.Request with the meta keys the spider uses; depth is set by
\* DepthMiddleware
Request(u, depth, anchor_text, matched, dont_filter) ==
    [url |-> u, depth |-> depth, anchor_text |-> anchor_text, matched |-> matched,
     dont_filter |-> dont_filter]

\* the requests parse() yields for a page of the given depth
RECURSIVE Yielded(_, _)
Yielded(ds, depth) ==
    IF ds = <<>> THEN <<>>
    ELSE LET d == Head(ds)
         IN  IF ~d.will_follow THEN Yielded(Tail(ds), depth)
             ELSE <<Request(d.url, depth + 1, d.text, d.will_download, d.will_download)>>
                      \o Yielded(Tail(ds), depth)

\* the request fingerprint
fingerprint(r) == canonicalize_url(r.url)

\* DepthMiddleware, then Scheduler.enqueue_request for each request in turn:
\* a request deeper than DEPTH_LIMIT is dropped; a request with dont_filter
\* is neither checked against the duplicate filter nor recorded in it
RECURSIVE enqueue_request(_, _, _)
enqueue_request(rs, queue, fps) ==
    IF rs = <<>> THEN [q |-> queue, seen |-> fps]
    ELSE LET r == Head(rs)
         IN  IF r.depth > max_depth THEN enqueue_request(Tail(rs), queue, fps)
             ELSE IF r.dont_filter THEN enqueue_request(Tail(rs), Append(queue, r), fps)
             ELSE IF fingerprint(r) \in fps THEN enqueue_request(Tail(rs), queue, fps)
             ELSE enqueue_request(Tail(rs), Append(queue, r), fps \cup {fingerprint(r)})

\* start URLs of the rules files
ScrapyStartUrls == { <<"http:", "top">>, <<"http:", "top", HASH, "f">> }

\* rules files: follow_anchor_exact, download_anchor_exact, llm_fallback
ScrapyCfgs ==
    [follow_anchor_exact : {{}, {"minutes"}, {"minutes", "About"}},
     download_anchor_exact : {{}, {"minutes"}},
     llm_fallback : BOOLEAN]

\* the spider as from_crawler returns it; a depth_limit of 0 (no limit) is
\* left out
ScrapyInit ==
    /\ variant = "scrapy"
    /\ site \in Sites
    /\ start_url \in ScrapyStartUrls
    /\ max_depth \in 1..MaxDepth
    /\ max_downloads = Nothing
    /\ cfg \in ScrapyCfgs
    /\ pc = "start"
    /\ q = <<>> /\ seen_in_run = {} /\ saved_count = 0
    /\ item = NoItem /\ url = <<>>
    /\ resp = NoResp /\ status_code = Nothing /\ content_type = None /\ body_bytes = Nothing
    /\ html_title = None /\ links = <<>> /\ keep = FALSE
    /\ crawled_pages = {}
    /\ connected = "no" /\ txn_failed = FALSE /\ filter_raised = FALSE
    /\ run = 1
    /\ pipeline_n = 0
    /\ store0 = {}
    /\ fetch_log = <<>> /\ fetch_raw = <<>> /\ deq_log = <<>> /\ enq_log = <<>>
    /\ raw_log = <<>> /\ save_log = <<>> /\ ins_log = {}
    /\ OutsideIdle

\* start_requests: the start request is not subject to the duplicate filter
start_requests ==
    /\ pc = "start"
    /\ LET sched == enqueue_request(<<Request(start_url, 0, None, FALSE, TRUE)>>, <<>>, {})
       IN  q' = sched.q /\ seen_in_run' = sched.seen
    /\ pc' = "crawl"
    /\ UNCHANGED <<outside, config, saved_count, item, url, temps, crawled_pages, connected,
                   txn_failed, filter_raised, run, pipeline_n, history>>

\* the downloader gives up on the next request: no callback is called
download_failed ==
    /\ pc = "crawl"
    /\ q # <<>>
    /\ item' = Head(q)
    /\ q' = Tail(q)
    /\ fetch_log' = Append(fetch_log, item'.url)
    /\ links' = <<>>
    /\ resp' = NoResp
    /\ UNCHANGED <<outside, config, pc, seen_in_run, saved_count, url, status_code,
                   content_type, body_bytes, html_title, keep, crawled_pages, connected,
                   txn_failed, filter_raised, run, pipeline_n, store0, fetch_raw, deq_log,
                   enq_log, raw_log, save_log, ins_log>>

\* the next request is downloaded and parse() runs on its response: the item
\* goes through PostgresPipeline.process_item, the requests through
\* DepthMiddleware and the scheduler
parse ==
    /\ pc = "crawl"
    /\ q # <<>>
    /\ item' = Head(q)
    /\ fetch_log' = Append(fetch_log, item'.url)
    /\ \E response \in Responses(item'.url) :
          /\ resp' = response
          /\ crawled_pages' =
                IF item'.matched
                THEN process_item(crawled_pages,
                         Row(item'.url, item'.anchor_text, Some(200), response.content_type,
                             <<"bytes", response.page>>,
                             IF response.content_type = "text/html" THEN response.page ELSE None,
                             item'.depth))
                ELSE crawled_pages
          /\ LET found == IF response.content_type = "text/html"
                          THEN LinkExtractor(item'.url, response.anchors, {})
                          ELSE <<>>
             IN  \E llm \in LlmResults(Len(found)) :
                    /\ links' = Decisions(found, llm)
                    /\ LET sched == enqueue_request(Yielded(links', item'.depth), Tail(q),
                                                    seen_in_run)
                       IN  q' = sched.q /\ seen_in_run' = sched.seen
    /\ ins_log' = ins_log \cup (crawled_pages' \ crawled_pages)
    /\ UNCHANGED <<outside, config, pc, saved_count, url, status_code, content_type,
                   body_bytes, html_title, keep, connected, txn_failed, filter_raised,
                   run, pipeline_n, store0, fetch_raw, deq_log, enq_log, raw_log, save_log>>

\* the scheduler is empty: the spider is closed
spider_closed ==
    /\ pc = "crawl"
    /\ q = <<>>
    /\ pc' = "done"
    /\ UNCHANGED <<outside, config, q, seen_in_run, saved_count, item, url, temps, crawled_pages,
                   connected, txn_failed, filter_raised, run, pipeline_n, history>>

ScrapyNext ==
    \/ start_requests
    \/ download_failed
    \/ parse
    \/ spider_closed

ScrapySpec == ScrapyInit /\ [][ScrapyNext]_vars

\* ------------------------------------------------------------- the ingestion
\* run() of ingest/committee_deliberations_embed.py: batches of source rows
\* are turned into text, embedded and written to the target table, one commit
\* per batch.
MaxRows == 3
MaxBatch == 2

\* a source row: status_code, whether content is non-null, and whether
\* extract_text finds text in it
SourceRow(status, has_content, has_text) ==
    [status_code |-> status, has_content |-> has_content, has_text |-> has_text]

SourceRows ==
    {SourceRow(200, TRUE, TRUE), SourceRow(200, TRUE, FALSE), SourceRow(404, TRUE, TRUE),
     SourceRow(200, FALSE, FALSE)}

\* the tables a run may find: up to MaxRows rows, in id order
SourceTables == UNION {[1..n -> SourceRows] : n \in 0..MaxRows}

\* extract_text(content, content_type) is truthy
extract_text(src, i) == src[i].has_content /\ src[i].has_text

\* SELECT ... WHERE status_code = 200 AND content IS NOT NULL AND NOT EXISTS
\* (a target row with speech_id = url) ORDER BY id ASC LIMIT limit
fetch_rows(src, tgt, limit) ==
    LET sel == {i \in DOMAIN src : src[i].status_code = 200 /\ src[i].has_content /\ i \notin tgt}
    IN  {i \in sel : Cardinality({j \in sel : j < i}) < limit}

\* the crawler is not running
CrawlOff ==
    /\ CrawlInit
    /\ variant = "script" /\ site = "A" /\ start_url = <<"ftp:", "m1">>
    /\ max_depth = 0 /\ max_downloads = Nothing

IngestInit ==
    /\ CrawlOff
    /\ OtherIdle /\ ChunkIdle
    /\ ingest_pc = "fetch"
    /\ source \in SourceTables
    /\ target = {}
    /\ batch_size \in 1..MaxBatch
    /\ rows = {}

\* rows = fetch_rows(...); `if not rows: break`
IngestFetch ==
    /\ ingest_pc = "fetch"
    /\ rows' = fetch_rows(source, target, batch_size)
    /\ ingest_pc' = IF rows' = {} THEN "done" ELSE "batch"
    /\ UNCHANGED <<vars_crawl, other, chunker, source, target, batch_size>>

\* the rest of the loop body: pairs, `if not pairs: break`, chunking,
\* embedding, insert_row for every pair, conn.commit(); an exception of the
\* embedding call or the dimension test leaves run() through `finally`
\* before the commit
IngestBatch ==
    /\ ingest_pc = "batch"
    /\ LET pairs == {i \in rows : extract_text(source, i)}
       IN  IF pairs = {}
           THEN ingest_pc' = "done" /\ UNCHANGED target
           ELSE \/ target' = target \cup pairs /\ ingest_pc' = "fetch"
                \/ ingest_pc' = "failed" /\ UNCHANGED target
    /\ UNCHANGED <<vars_crawl, other, chunker, source, batch_size, rows>>

IngestNext ==
    \/ IngestFetch
    \/ IngestBatch

IngestSpec == IngestInit /\ [][IngestNext]_vars

\* ------------------------------------------------------------- chunk_text
\* The text is modelled by its length: a slice text[start:end] is the pair
\* <<start, end>> of its bounds.
MaxLen == 4
MaxChunk == 3
MaxOverlap == 4

Min(a, b) == IF a < b THEN a ELSE b
Max(a, b) == IF a > b THEN a ELSE b

\* mutant of next_start: off by one, the next slice starts a character later
next_start_skips(s, end, ov) == Max(end - ov, s + 1) + 1

\* start = max(end - overlap, start + 1)
next_start(s, end, ov) == Max(end - ov, s + 1)

ChunkInit ==
    /\ CrawlOff
    /\ OtherIdle /\ IngestIdle
    /\ chunk_pc = "call"
    /\ text_len \in 0..MaxLen
    /\ chunk_size \in 1..MaxChunk
    /\ overlap \in 0..MaxOverlap
    /\ start = 0
    /\ chunks = <<>>

\* `if not text: return []`; chunks = []; start = 0; n = len(text)
chunk_text_enter ==
    /\ chunk_pc = "call"
    /\ chunk_pc' = IF text_len = 0 THEN "returned" ELSE "loop"
    /\ UNCHANGED <<vars_crawl, other, ingest, text_len, chunk_size, overlap, start, chunks>>

\* the test of `while start < n` and one pass through the body
chunk_text_loop ==
    /\ chunk_pc = "loop"
    /\ IF start < text_len
       THEN LET end == Min(start + chunk_size, text_len)
            IN  /\ chunks' = Append(chunks, <<start, end>>)
                /\ IF end = text_len
                   THEN chunk_pc' = "returned" /\ UNCHANGED start
                   ELSE chunk_pc' = "loop" /\ start' = next_start(start, end, overlap)
       ELSE chunk_pc' = "returned" /\ UNCHANGED <<start, chunks>>
    /\ UNCHANGED <<vars_crawl, other, ingest, text_len, chunk_size, overlap>>

ChunkNext ==
    \/ chunk_text_enter
    \/ chunk_text_loop

\* the call runs on its own thread of control: a step that can be taken is taken
ChunkSpec == ChunkInit /\ [][ChunkNext]_vars /\ WF_vars(ChunkNext)

\* ------------------------------------------------------------- properties
Range(f) == {f[i] : i \in DOMAIN f}

\* the key the controller uses for a queued item
KeyOf(it) == normalize_url(it.url)

\* a save_page call of this run that returned without inserting
NoOpSaves == {i \in DOMAIN save_log : ~save_log[i].raised /\ ~save_log[i].returned}

\* the fetch of the item being processed failed
FetchFailedNow ==
    /\ fetch_log # <<>>
    /\ fetch_log[Len(fetch_log)] = url
    /\ body_bytes = Nothing

\* C1: in one run no URL is passed to session.get twice, whatever the link
\* graph: several links to one URL, several parents, cycles.
C1_FetchedAtMostOnce ==
    \A i, j \in DOMAIN fetch_log : fetch_log[i] = fetch_log[j] => i = j

\* a URL was popped twice in this run (two parents, or a cycle) and fetched
C1_Witness ==
    \E i, j \in DOMAIN deq_log :
        /\ i < j
        /\ KeyOf(deq_log[i]) = KeyOf(deq_log[j])
        /\ KeyOf(deq_log[i]) \in Range(fetch_log)

\* C2: the table holds at most one row per url, whatever was saved and however
\* many runs there were, and a run inserts no row for a URL that was in the
\* table when it started.
C2_OneRowPerUrl ==
    /\ \A r1, r2 \in crawled_pages : r1.url = r2.url => r1 = r2
    /\ \A r \in ins_log : ~url_exists(store0, r.url)

\* a second run met a URL the first run had stored, and one of its saves found
\* the URL already there
C2_Witness ==
    /\ run = 2
    /\ \E i \in DOMAIN deq_log : url_exists(store0, KeyOf(deq_log[i]))
    /\ \E i \in NoOpSaves :
          Cardinality({r \in crawled_pages : r.url = save_log[i].row.url}) = 1

\* C3: a row of the table is never changed or deleted by a step, a save on its
\* own url included.
C3_RowsNeverChange == [][\A r \in crawled_pages : r \in crawled_pages']_vars

\* a save was attempted on a stored url with other field values
C3_Witness ==
    \E i \in NoOpSaves :
        /\ save_log[i].row \notin crawled_pages
        /\ url_exists(crawled_pages, save_log[i].row.url)

\* C4: with a quota the run never inserts more rows than max_downloads, and
\* once an insert brings the count to max_downloads the run has ended with
\* nothing further popped or fetched (stated of the runs whose rows all come
\* from fetches that succeeded).
C4_QuotaRespected ==
    (max_downloads # Nothing /\ \A r \in ins_log : r.content # Nothing) =>
        /\ Cardinality(ins_log) <= max_downloads[1]
        /\ (ins_log # {} /\ Cardinality(ins_log) >= max_downloads[1]) => pc = "done"

\* C5: the quota counter is the number of rows this run inserted: a fetch
\* without a save, a save that finds the url present and a save that raises
\* leave it alone.
C5_CounterIsInserted == saved_count = Cardinality(ins_log)

\* a run with an insert, a fetch that was not saved, a save that found the url
\* present and a save that raised
C5_Witness ==
    /\ saved_count >= 1
    /\ Len(fetch_log) > Len(save_log)
    /\ NoOpSaves # {}
    /\ \E i \in DOMAIN save_log : save_log[i].raised

\* C6: the frontier is FIFO: the items popped are the items pushed, in the
\* order of the pushes, and the depths of the popped items never decrease.
C6_Fifo ==
    /\ deq_log \o q = enq_log
    /\ \A i, j \in DOMAIN deq_log : i < j => deq_log[i].depth <= deq_log[j].depth

\* two items of depth 1 with different URLs were popped, then one of depth 2
C6_Witness ==
    \E i, j, k \in DOMAIN deq_log :
        /\ i < j /\ j < k
        /\ deq_log[i].depth = 1 /\ deq_log[j].depth = 1 /\ deq_log[k].depth = 2
        /\ KeyOf(deq_log[i]) # KeyOf(deq_log[j])

\* C7: with max_depth >= 0 no item deeper than max_depth is pushed; the seed
\* has depth 0 and a child the depth of the item it was found on plus one.
C7_DepthBound ==
    /\ [](/\ max_depth >= 0 => \A i \in DOMAIN enq_log : enq_log[i].depth <= max_depth
          /\ enq_log # <<>> => enq_log[1].depth = 0)
    /\ [][pc = "enqueue" =>
            \A i \in (Len(enq_log) + 1)..Len(enq_log') : enq_log'[i].depth = item.depth + 1]_vars

\* a page with links was fetched at depth max_depth >= 1 and the run ended
C7_Witness ==
    /\ max_depth >= 1
    /\ pc = "done"
    /\ \E i \in DOMAIN deq_log :
          /\ deq_log[i].depth = max_depth
          /\ KeyOf(deq_log[i]) \in Range(fetch_log)
          /\ SiteType(site, PageOf(KeyOf(deq_log[i]))) = "text/html"
          /\ SiteAnchors(site, PageOf(KeyOf(deq_log[i]))) # <<>>

\* C8: a URL that is not http(s) is never pushed and never passed to
\* session.get, be it a link or the start URL.
C8_HttpOnly ==
    /\ \A i \in DOMAIN enq_log : is_http_url(KeyOf(enq_log[i]))
    /\ \A i \in DOMAIN fetch_log : is_http_url(fetch_log[i])

\* a URL without the whitespace around it and without its fragment
Bare(u) ==
    LET t == strip(u)
    IN  IF HashPos(t) = 0 THEN t ELSE SubSeq(t, 1, HashPos(t) - 1)

\* C9: URLs written on pages or given as the start URL that differ only in the
\* fragment or in surrounding whitespace get the same key, and at most one of
\* them is fetched (so at most one row is stored for them).
C9_FragmentVariantsAreOne ==
    /\ \A i, j \in DOMAIN raw_log :
          Bare(raw_log[i]) = Bare(raw_log[j]) => KeyOf(enq_log[i]) = KeyOf(enq_log[j])
    /\ \A i, j \in DOMAIN fetch_raw :
          Bare(fetch_raw[i]) = Bare(fetch_raw[j]) => i = j

\* C10: after a fetch that failed the run does not end before the next item
\* of the frontier is popped (quotas of 1 and more, and no quota).
C10_FailedFetchGoesOn ==
    (FetchFailedNow /\ q # <<>> /\ max_downloads # Some(0)) => ~Ended

\* C11: while the controller processes an item whose fetch failed, no row for
\* its URL is inserted and nothing is pushed onto the frontier (stated of the
\* http(s) URLs, whose request can fail in transport).
C11_FailedFetchNoSaveNoChildren ==
    [][(FetchFailedNow /\ is_http_url(url)) =>
          /\ \A r \in ins_log' \ ins_log : r.url # url
          /\ Len(enq_log') <= Len(enq_log)]_vars

\* C12 as claimed: once the filter has raised on an item, no row is inserted
\* for its URL, it is not fetched, and no links from it are pushed.
C12_FilterRaisesNotFollowed ==
    [][filter_raised =>
          /\ \A r \in ins_log' \ ins_log : r.url # url
          /\ Len(fetch_log') <= Len(fetch_log)
          /\ Len(enq_log') <= Len(enq_log)]_vars

\* C12 as amended: a filter that raises gives the verdict False and the run
\* goes on; no row is inserted for the item's URL and it is not fetched after
\* the verdict; no links from it are pushed when the verdict precedes the
\* fetch (package variant), while the links of a page already fetched (script
\* variant) are pushed as for any page.
C12_FilterRaisesFailClosed ==
    [][/\ (filter_raised' /\ pc \in {"prefilter", "filter"}) =>
              /\ pc' \in {"dequeue", "enqueue"}
              /\ ~keep'
       /\ filter_raised =>
              /\ \A r \in ins_log' \ ins_log : r.url # url
              /\ Len(fetch_log') <= Len(fetch_log)
              /\ variant = "package" => Len(enq_log') <= Len(enq_log)]_vars

\* the save filter raised on a fetched page that it would have kept, and the
\* links of the page were pushed
C12_Witness ==
    /\ filter_raised
    /\ variant = "script"
    /\ pc = "dequeue"
    /\ resp # NoResp
    /\ rule_based_is_minutes_like(BodyText(resp.page))
    /\ ~url_exists(crawled_pages, url)
    /\ \E i \in DOMAIN enq_log : enq_log[i].depth = item.depth + 1

\* C13: a save that raises is not fatal: the run never dies of the aborted
\* transaction the failed INSERT left on the connection, the URL of a save
\* that raised is not inserted by that save, and the counter counts only the
\* saves that returned True.
C13_SaveFailureNonFatal ==
    /\ pc = "aborted" => ~txn_failed
    /\ \A i \in DOMAIN save_log :
          save_log[i].raised => save_log[i].row \notin ins_log
    /\ saved_count = Cardinality({i \in DOMAIN save_log : save_log[i].returned})

\* C14: when the connection cannot be opened the process has exited with
\* nothing popped, nothing fetched, no save attempted and nothing inserted.
C14_NoConnectionNoCrawl ==
    connected = "failed" =>
        /\ pc = "exit"
        /\ q = <<>> /\ deq_log = <<>> /\ fetch_log = <<>>
        /\ save_log = <<>> /\ ins_log = {}

\* a second run on a store that holds rows could not connect
C14_Witness == connected = "failed" /\ run = 2 /\ store0 # {}

\* C15: a run configured with max_depth below 0 fetches nothing and inserts
\* nothing (stated of the runs with an http(s) start URL).
C15_NegativeDepthRejected ==
    (max_depth < 0 /\ is_http_url(normalize_url(start_url))) =>
        fetch_log = <<>> /\ ins_log = {}

\* C16: in every state of a run, so wherever the process may die, the
\* committed table holds the row of every save that returned True before, and
\* the row of every item the pipeline has processed.
C16_CompletedSavesAreDurable ==
    /\ \A i \in DOMAIN save_log :
          save_log[i].returned => save_log[i].row \in crawled_pages
    /\ pipeline_n > 0 => \A it \in PipelineItems : url_exists(crawled_pages, it.url)

\* the process died on an uncaught exception after a save had completed and
\* a later item had been fetched
C16_Witness ==
    /\ pc = "aborted"
    /\ \E i \in DOMAIN save_log : save_log[i].returned
    /\ Len(fetch_log) > Len(save_log)

\* C17: a save that returns True found the url absent and added exactly its
\* row; a save that returns False found the url present and left the table
\* as it was.
C17_SaveReturnsInserted ==
    [][(pc = "persist" /\ Len(save_log') > Len(save_log)
                       /\ ~save_log'[Len(save_log')].raised) =>
          LET e == save_log'[Len(save_log')]
              present == \E r \in crawled_pages : r.url = e.row.url
          IN  /\ e.returned = ~present
              /\ e.returned => crawled_pages' = crawled_pages \cup {e.row}
              /\ ~e.returned => crawled_pages' = crawled_pages]_vars

\* one save of the run returned True and another returned False
C17_Witness ==
    /\ \E i \in DOMAIN save_log : save_log[i].returned
    /\ NoOpSaves # {}

\* C18: when the URL popped is already in seen_in_run, or the probe finds it
\* in the table, the controller's step leads back to the pop: no request, no
\* change of the table or of the counter, nothing pushed.
C18_SkipEdges ==
    [][(\/ /\ pc = "dequeue" /\ Len(deq_log') > Len(deq_log)
            /\ normalize_url(Head(q).url) \in seen_in_run
         \/ /\ pc = "exists" /\ pc' \notin {"exists", "aborted"}
            /\ \E r \in crawled_pages : r.url = url) =>
          /\ pc' = "dequeue"
          /\ fetch_log' = fetch_log
          /\ crawled_pages' = crawled_pages
          /\ saved_count' = saved_count
          /\ enq_log' = enq_log]_vars

\* in a second run a URL was skipped because the table held it and another
\* because it had been popped before, and the run went on to fetch a third
C18_Witness ==
    /\ run = 2
    /\ \E i \in DOMAIN deq_log :
          /\ url_exists(store0, KeyOf(deq_log[i]))
          /\ KeyOf(deq_log[i]) \notin Range(fetch_log)
    /\ \E i, j \in DOMAIN deq_log : i < j /\ KeyOf(deq_log[i]) = KeyOf(deq_log[j])
    /\ fetch_log # <<>>

\* C19: a run with max_depth >= 0, with or without a quota, ends.
C19_Terminates == <>Ended

\* a run without a quota ended with the queue empty after a URL had been
\* popped twice (two parents, or a cycle of links) and a fetch had failed
C19_Witness ==
    /\ pc = "done" /\ q = <<>>
    /\ max_depth >= 1 /\ max_downloads = Nothing
    /\ \E i, j \in DOMAIN deq_log : i < j /\ KeyOf(deq_log[i]) = KeyOf(deq_log[j])
    /\ Len(fetch_log) > Len(save_log)

\* the anchor text a QueueItem gets from a link with this text
AnchorOf(text) == IF text = "" THEN None ELSE text

\* C20: every row the run inserted has the anchor text and the depth of the
\* first QueueItem popped for its URL: no anchor text and depth 0 for the
\* seed, and for a child the text of the link it was pushed for.
C20_RecordCarriesAnchorAndDepth ==
    \A r \in ins_log :
        \E i \in DOMAIN deq_log :
            /\ KeyOf(deq_log[i]) = r.url
            /\ \A j \in 1..(i - 1) : KeyOf(deq_log[j]) # r.url
            /\ r.referrer_anchor_text = deq_log[i].anchor_text
            /\ r.depth = deq_log[i].depth
            /\ IF i = 1
               THEN r.depth = 0 /\ r.referrer_anchor_text = None
               ELSE /\ r.depth >= 1
                    /\ \E p \in Pages : \E k \in DOMAIN SiteAnchors(site, p) :
                          /\ SiteAnchors(site, p)[k].href = raw_log[i]
                          /\ AnchorOf(SiteAnchors(site, p)[k].text) = r.referrer_anchor_text

\* a page linked from the start page with the anchor text "minutes" was
\* fetched, found minutes-like and stored with that text and depth 1, in a
\* run that also met another link to a stored URL with another text
C20_Witness ==
    /\ \E r \in ins_log :
          /\ r.depth = 1 /\ r.referrer_anchor_text = "minutes"
          /\ r.content # Nothing
          /\ rule_based_is_minutes_like(BodyText(PageOf(r.url)))
    /\ \E r \in ins_log : \E i \in DOMAIN deq_log :
          KeyOf(deq_log[i]) = r.url /\ deq_log[i].anchor_text # r.referrer_anchor_text

\* C21: a row is inserted for a child only if its anchor text holds a keyword
\* or the text of its body satisfies the rule-based filter (stated of the rows
\* whose fetch succeeded).
C21_PersistedOnlyIfAccepted ==
    \A r \in ins_log :
        (r.depth >= 1 /\ r.content # Nothing) =>
            \/ r.referrer_anchor_text # None /\ anchor_is_minutes_like(r.referrer_anchor_text)
            \/ rule_based_is_minutes_like(BodyText(PageOf(r.url)))

\* C30: in the Scrapy spider no URL is sent to the downloader twice in one
\* crawl, whatever the links and the follow and download rules (stated of the
\* URLs other than the start URL).
C30_ScrapyFetchedAtMostOnce ==
    \A i, j \in DOMAIN fetch_log :
        /\ canonicalize_url(fetch_log[i]) = canonicalize_url(fetch_log[j])
        /\ canonicalize_url(fetch_log[i]) # canonicalize_url(start_url)
        => i = j

\* every text the rule-based filter can tell apart
Texts == [kw : BOOLEAN, date : BOOLEAN, time : BOOLEAN, agenda : BOOLEAN]

C23_KeywordAndSignal ==
    /\ \A t \in Texts :
          /\ rule_based_is_minutes_like(t) => t.kw /\ (t.date \/ t.time \/ t.agenda)
          /\ (t.kw /\ ~t.date /\ ~t.time /\ ~t.agenda) => ~rule_based_is_minutes_like(t)
          /\ ~t.kw => ~rule_based_is_minutes_like(t)
    /\ variant = "script" =>
          \A r \in ins_log :
              r.content_type = "text/html" =>
                  LET t == BodyText(PageOf(r.url))
                  IN  t.kw /\ (t.date \/ t.time \/ t.agenda)

\* the script variant fetched a page with a keyword and no signal (top) and a
\* page with signals and no keyword (about), stored neither, and stored a page
\* with both
C23_Witness ==
    /\ variant = "script"
    /\ \E i, j \in DOMAIN fetch_log :
          /\ BodyText(PageOf(fetch_log[i])) = Text(TRUE, FALSE, FALSE, FALSE)
          /\ ~BodyText(PageOf(fetch_log[j])).kw
          /\ SiteType(site, PageOf(fetch_log[j])) = "text/html"
          /\ ~url_exists(crawled_pages, fetch_log[i])
          /\ ~url_exists(crawled_pages, fetch_log[j])
    /\ \E r \in ins_log : r.content_type = "text/html"
    /\ pc = "done"

\* session.get was called for the item being processed
ItemFetched == fetch_log # <<>> /\ fetch_log[Len(fetch_log)] = url

\* C24: the steps on an item follow the order dedup check, existence check,
\* fetch, filter, persist, enqueue: the filter is never asked before the fetch,
\* and only the dedup check and the existence check lead back to the dequeue
\* without a fetch.
C24_StepOrder ==
    [][/\ (pc' # pc /\ pc # "start" /\ ~Ended) =>
              \/ pc = "dequeue" /\ pc' \in {"exists", "done"}
              \/ pc = "exists" /\ pc' \in {"dequeue", "fetch", "aborted"}
              \/ pc = "fetch" /\ pc' \in {"filter", "persist", "enqueue"}
              \/ pc = "filter" /\ pc' \in {"persist", "enqueue"}
              \/ pc = "persist" /\ pc' \in {"enqueue", "done"}
              \/ pc = "enqueue" /\ pc' = "dequeue"
       /\ pc \in {"prefilter", "filter", "persist", "enqueue"} => ItemFetched]_vars

\* C24, amended: the script variant follows that order; the package variant
\* asks the filter about the anchor text of an item of depth > 0 after the
\* existence check and before the fetch, goes back to the dequeue without a
\* fetch when the filter rejects, and does not ask the filter after the fetch;
\* in both the save comes before the children are pushed.
C24_StepOrderByVariant ==
    [][/\ (pc' # pc /\ pc # "start" /\ ~Ended) =>
              \/ pc = "dequeue" /\ pc' \in {"exists", "done"}
              \/ pc = "exists" /\ pc' \in {"dequeue", "aborted"}
              \/ pc = "exists" /\ pc' = "fetch" /\ (variant = "script" \/ item.depth = 0)
              \/ pc = "exists" /\ pc' = "prefilter" /\ variant = "package" /\ item.depth > 0
              \/ pc = "prefilter" /\ pc' \in {"fetch", "dequeue"}
              \/ pc = "fetch" /\ pc' = "filter" /\ variant = "script"
              \/ pc = "fetch" /\ pc' \in {"persist", "enqueue"} /\ variant = "package"
              \/ pc = "filter" /\ pc' \in {"persist", "enqueue"}
              \/ pc = "persist" /\ pc' \in {"enqueue", "done"}
              \/ pc = "enqueue" /\ pc' = "dequeue"
       /\ pc = "prefilter" => ~ItemFetched
       /\ pc \in {"filter", "persist", "enqueue"} => ItemFetched]_vars

\* a run of the package variant in which the filter turned one item away
\* before its fetch and let another through, which was fetched, saved and had
\* its children pushed
C24_Witness ==
    /\ variant = "package"
    /\ \E i \in DOMAIN deq_log :
          /\ deq_log[i].depth > 0
          /\ deq_log[i].anchor_text = "About"
          /\ KeyOf(deq_log[i]) \notin Range(fetch_log)
          /\ ~url_exists(crawled_pages, KeyOf(deq_log[i]))
    /\ \E r \in ins_log : r.depth = 1 /\ r.content # Nothing
    /\ \E i \in DOMAIN enq_log : enq_log[i].depth = 2

\* C25: a fetch leaves links only for an item fetched as HTML at a depth below
\* max_depth, and children are pushed only for such an item, each for a link
\* of its page: a PDF, any other type and an item at depth max_depth push no
\* children.
C25_ChildrenOnlyFromHtmlBelowMaxDepth ==
    [][/\ (pc = "fetch" /\ links' # <<>>) =>
              content_type' = "text/html" /\ item.depth < max_depth
       /\ (pc = "enqueue" /\ Len(enq_log') > Len(enq_log)) =>
              /\ ItemFetched
              /\ content_type = "text/html"
              /\ SiteType(site, PageOf(url)) = "text/html"
              /\ item.depth < max_depth
              /\ \A i \in (Len(enq_log) + 1)..Len(enq_log') :
                    /\ enq_log'[i].depth = item.depth + 1
                    /\ \E k \in DOMAIN SiteAnchors(site, PageOf(url)) :
                          SiteAnchors(site, PageOf(url))[k].href = raw_log'[i]]_vars

\* a PDF was fetched at a depth below max_depth and an image at depth
\* max_depth, the run ended, and the children pushed all came from HTML pages
C25_Witness ==
    /\ pc = "done"
    /\ \E i, j \in DOMAIN deq_log :
          /\ KeyOf(deq_log[i]) \in Range(fetch_log)
          /\ SiteType(site, PageOf(KeyOf(deq_log[i]))) = "application/pdf"
          /\ deq_log[i].depth < max_depth
          /\ KeyOf(deq_log[j]) \in Range(fetch_log)
          /\ SiteType(site, PageOf(KeyOf(deq_log[j]))) = "image/png"
          /\ deq_log[j].depth = max_depth
    /\ Len(enq_log) > 2

\* C26: the i-th item popped is the i-th item pushed, so no item is popped
\* twice or put back; and when a run without a quota has ended, every item
\* pushed, the seed included, has been popped.
C26_EachItemDequeuedOnce ==
    /\ Len(deq_log) <= Len(enq_log)
    /\ \A i \in DOMAIN deq_log : deq_log[i] = enq_log[i]
    /\ (Ended /\ connected = "yes" /\ max_downloads = Nothing) => deq_log = enq_log

\* C27: no failure on an item ends the run, an error of the existence probe
\* included: the controller never leaves the loop through an exception.
C27_ItemFailuresRecoverable == pc # "aborted"

\* C28: the package variant never saves the root: every row a run of it
\* inserted has depth >= 1.
C28_RootNeverSaved ==
    variant = "package" => \A r \in ins_log : r.depth >= 1

\* a run of the package variant fetched the root, pushed its children, saved
\* some of them and ended, and the root is not in the table
C28_Witness ==
    /\ variant = "package"
    /\ pc = "done"
    /\ fetch_log # <<>> /\ fetch_log[1] = Seed.url
    /\ Len(enq_log) > 1
    /\ ins_log # {}
    /\ ~url_exists(crawled_pages, Seed.url)

\* C29: in the package variant an item of depth > 0 gets past the pre-filter
\* only if its anchor text holds a keyword and the filter did not raise: an
\* item with any other anchor text, or with none, is not fetched, not saved
\* and pushes no children.
C29_FetchedOnlyIfAnchorAccepted ==
    variant = "package" =>
        /\ (pc \in {"fetch", "persist", "enqueue"} /\ item.depth > 0) =>
               item.anchor_text \in KeywordAnchors /\ ~filter_raised
        /\ \A r \in ins_log : r.referrer_anchor_text \in KeywordAnchors

\* a run of the package variant popped an item without anchor text and an
\* item with a keyword in its anchor text, fetched and saved the second and
\* never fetched the first
C29_Witness ==
    /\ variant = "package"
    /\ \E i \in DOMAIN deq_log :
          /\ deq_log[i].depth > 0
          /\ deq_log[i].anchor_text = None
          /\ KeyOf(deq_log[i]) \notin Range(fetch_log)
          /\ ~url_exists(crawled_pages, KeyOf(deq_log[i]))
    /\ \E r \in ins_log : r.referrer_anchor_text = "minutes" /\ r.content # Nothing
    /\ pc = "done"

\* the link a request was yielded for was followed, by rule or by the LLM
Followed(text) == is_follow_anchor(text) \/ cfg.llm_fallback

\* C31: in the Scrapy spider a request is yielded only for a followed link and
\* is marked for saving exactly when the link's anchor text matches a
\* download rule; the response of a marked request is handed to the pipeline
\* and no other, the start request is not marked, and the page at the start
\* URL is never stored.
C31_FollowDecidesDownloadSaves ==
    /\ \A i \in DOMAIN q :
          IF q[i].depth = 0 THEN ~q[i].matched
          ELSE /\ Followed(q[i].anchor_text)
               /\ q[i].matched = is_download_anchor(q[i].anchor_text)
    /\ \A r \in ins_log :
          /\ r.depth >= 1
          /\ is_download_anchor(r.referrer_anchor_text)
          /\ Followed(r.referrer_anchor_text)
    /\ (pc = "crawl" /\ resp # NoResp /\ item.matched) => url_exists(crawled_pages, item.url)
    /\ \A r \in ins_log : canonicalize_url(r.url) # canonicalize_url(start_url)

\* C32: in the package variant a URL that is not in the table and is linked
\* with an anchor text the filter accepts is fetched in the run: an item with
\* such an anchor text is never dropped as already seen while its URL has not
\* been fetched and every item popped for the URL before had an anchor text
\* the filter rejects.
C32_AcceptedLinkIsFetched ==
    [][(/\ variant = "package"
        /\ pc = "dequeue" /\ pc' = "dequeue" /\ Len(deq_log') > Len(deq_log)
        /\ item'.anchor_text \in KeywordAnchors
        /\ ~url_exists(crawled_pages, url'))
       => \/ url' \in Range(fetch_log)
          \/ \E j \in DOMAIN deq_log :
                /\ KeyOf(deq_log[j]) = url'
                /\ deq_log[j].depth = 0 \/ deq_log[j].anchor_text \in KeywordAnchors]_vars

\* the links of the page at u whose anchor text the package variant accepts
AcceptedLinks(u) ==
    IF SiteType(site, PageOf(u)) # "text/html" THEN {}
    ELSE {l \in Range(extract_links(u, SiteAnchors(site, PageOf(u)))) : l.text \in KeywordAnchors}

\* the URLs within d links of the URLs of S, over accepted links only, each
\* as the loop normalizes it when the item is popped
RECURSIVE AcceptedReach(_, _)
AcceptedReach(S, d) ==
    IF d <= 0 THEN S
    ELSE AcceptedReach(S \cup UNION {{normalize_url(l.url) : l \in AcceptedLinks(u)} : u \in S},
                       d - 1)

\* nothing failed in the runs so far: every stored row has content, no save
\* of this run raised, the root was fetched with its links, every page this
\* run fetched below the root is in the table, and every item popped with an
\* accepted anchor text was fetched, found in the table or not the first for
\* its URL
NothingFailed ==
    /\ \A r \in crawled_pages : r.content # Nothing
    /\ \A i \in DOMAIN save_log : ~save_log[i].raised
    /\ Len(enq_log) > 1
    /\ \A i \in DOMAIN fetch_log :
          fetch_log[i] = Seed.url \/ url_exists(crawled_pages, fetch_log[i])
    /\ \A i \in DOMAIN deq_log :
          deq_log[i].anchor_text \in KeywordAnchors =>
              \/ KeyOf(deq_log[i]) \in Range(fetch_log)
              \/ url_exists(crawled_pages, KeyOf(deq_log[i]))
              \/ \E j \in 1..(i - 1) : KeyOf(deq_log[j]) = KeyOf(deq_log[i])

\* C33: when a later run of the package variant without a quota has ended on
\* the table an earlier run left, every page within max_depth of the start
\* page over accepted links is in the table (stated of the runs in which
\* nothing failed and of the URLs no item with a rejected anchor text was
\* popped for).
C33_LaterRunCompletes ==
    (/\ variant = "package"
     /\ run >= 2 /\ pc = "done" /\ q = <<>>
     /\ max_downloads = Nothing
     /\ is_http_url(Seed.url)
     /\ NothingFailed)
    => \A u \in AcceptedReach({Seed.url}, max_depth) \ {Seed.url} :
          \/ url_exists(crawled_pages, u)
          \/ \E j \in DOMAIN deq_log :
                KeyOf(deq_log[j]) = u /\ deq_log[j].anchor_text \notin KeywordAnchors

\* C34: the depth stored for a URL this run inserted is the depth of the
\* first item dequeued for it, and no item enqueued for that URL in the run
\* has a smaller depth.
C34_StoredDepthIsMinimum ==
    \A r \in ins_log :
        /\ \A i \in DOMAIN enq_log :
              KeyOf(enq_log[i]) = r.url => r.depth <= enq_log[i].depth
        /\ \E i \in DOMAIN deq_log :
              /\ KeyOf(deq_log[i]) = r.url /\ deq_log[i].depth = r.depth
              /\ \A j \in 1..(i - 1) : KeyOf(deq_log[j]) # r.url

\* a URL enqueued at two depths is stored with the smaller one
C34_Witness ==
    \E r \in ins_log : \E i, j \in DOMAIN enq_log :
        /\ KeyOf(enq_log[i]) = r.url /\ KeyOf(enq_log[j]) = r.url
        /\ enq_log[i].depth = r.depth /\ enq_log[j].depth > r.depth

\* C35: with two crawl processes interleaved on one table, the table holds at
\* most one row per url, each process's saved_count is the number of rows its
\* own save_page calls added, and no url is among the rows of both.
C35_ConcurrentRunsCountOwnRows ==
    /\ \A r1, r2 \in crawled_pages : r1.url = r2.url => r1 = r2
    /\ saved_count = Cardinality(ins_log)
    /\ other_saved_count = Cardinality(other_ins)
    /\ \A a \in ins_log : \A b \in other_ins : a.url # b.url
    /\ crawled_pages = ins_log \cup other_ins

\* the race: the first process found the url absent, the second one
\* inserted it, and the save of the first added nothing and was not counted
C35_Witness ==
    /\ \E i \in NoOpSaves : \E b \in other_ins : b.url = save_log[i].row.url
    /\ saved_count >= 1
    /\ other_saved_count >= 1

\* C36: when run() has ended normally, every source row with status 200,
\* content and extractable text has its row in the target table, also when
\* rows without text come before it, whatever the batch size.
C36_IngestCompletes ==
    ingest_pc = "done" =>
        \A i \in DOMAIN source :
            (source[i].status_code = 200 /\ extract_text(source, i)) => i \in target

\* the slices returned are what the text asks for: none for the empty text;
\* otherwise each holds 1..chunk_size characters, the first starts at 0, each
\* next one starts after the start and not after the end of the one before,
\* and the last ends at the end of the text
ChunksCover ==
    IF text_len = 0 THEN chunks = <<>>
    ELSE /\ chunks # <<>>
         /\ chunks[1][1] = 0
         /\ chunks[Len(chunks)][2] = text_len
         /\ \A i \in DOMAIN chunks :
               /\ chunks[i][2] - chunks[i][1] \in 1..chunk_size
               /\ i > 1 => /\ chunks[i][1] > chunks[i - 1][1]
                           /\ chunks[i][1] <= chunks[i - 1][2]

\* C37: for every text, chunk_size >= 1 and overlap >= 0, also overlap >=
\* chunk_size, chunk_text returns, and what it returns are slices of 1 to
\* chunk_size characters that cover the text without a gap and end at its end.
C37_ChunkTextTerminatesAndCovers ==
    /\ <>(chunk_pc = "returned")
    /\ [](chunk_pc = "returned" => ChunksCover)

\* a call with overlap >= chunk_size that returned three slices or more
C37_Witness ==
    /\ chunk_pc = "returned"
    /\ overlap >= chunk_size
    /\ Len(chunks) >= 3

====
